---- MODULE Spec2Model ----
(***************************************************************************)
(* TailExplorer (src/app.py): the stream-source lifecycle and fan-out core *)
(* for one configured log source.                                          *)
(*                                                                         *)
(* The program runs on one asyncio event loop, so a coroutine runs         *)
(* atomically from one await to the next.  Every action below is one such  *)
(* run: it starts where a coroutine is resumed from an await and ends      *)
(* where the coroutine reaches its next await (or returns).                *)
(***************************************************************************)
EXTENDS Integers, Sequences, FiniteSets, TLC

\* ------------------------------------------------------------------ bounds
\* websocket connections opened in one behaviour of Spec and RestartSpec (each
\* may create one LogReader, schedule one start_reading task and so spawn one
\* process)
MaxClients == 2
\* websocket connections opened in one behaviour of OverlapSpec, and the
\* non-blank lines the source's processes emit in one
MaxSockets == 3
MaxOverlapEmit == 2
\* non-blank lines the source's processes emit in one behaviour of Spec, and
\* in one of RestartSpec
MaxEmit == 3
MaxRestartEmit == 4
\* BufSpec: largest max_lines configured, and number of lines appended
MaxCfgLines == 5
MaxAppends == 7
MaxSnapLines == 3

\* --------------------------------------------------------- program constants
\* start_reading: max_initial_lines (100 in the source, scaled down)
max_initial_lines == 2
\* start_reading: max_timeouts (3 in the source, scaled down)
max_timeouts == 2
\* websocket_endpoint: reader.get_recent_logs(100) (100 in the source, scaled
\* down together with max_initial_lines)
recent_count == 2
\* config logging.max_lines_per_source / logging.cleanup_threshold used by the
\* lifecycle specification (10000 / 5000 by default, scaled down)
cfg_max_lines == 3
cfg_cleanup_threshold == 1

SRC == "src"          \* the one configured source id
None == 0             \* Python None for LogReader.process
Sockets == 1..MaxSockets
Clients == 1..MaxClients

VARIABLES
    active_connections, \* ConnectionManager.active_connections: dict source -> set of sockets
    active_readers,     \* active_readers: dict source -> LogReader object (its id)
    readers,            \* the LogReader objects ever created: id -> fields
    procs,              \* the processes ever spawned: pid -> "alive" | "termsent" | "exited"
    tasks,              \* the start_reading tasks ever created: id -> locals and position
    sockets,            \* the websocket handlers: id -> position, client gone or not
    inbox,              \* per socket, the messages delivered to it while its handler
                        \* lives, in order (forgotten when the handler ends)
    timers,             \* number of cleanup_reader_later tasks sleeping
    emitted,            \* number of non-blank lines read from the processes so far
    raised,             \* TRUE once broadcast_to_source has propagated an exception
    probe               \* inputs and result of the pure buffer operations (BufSpec)

vars == <<active_connections, active_readers, readers, procs, tasks, sockets,
          inbox, timers, emitted, raised, probe>>

\* ------------------------------------------------------------ pure helpers
Min(a, b) == IF a < b THEN a ELSE b
Max(a, b) == IF a > b THEN a ELSE b

\* Python's s[-k:] : the start index -k is taken from the end when it is
\* negative and from the front when it is zero or positive, then clamped.
PyTail(s, k) ==
    LET n == Len(s)
        start == IF -k < 0 THEN Max(n - k, 0) ELSE Min(-k, n)
    IN SubSeq(s, start + 1, n)

\* the whole buffer is returned, whatever the count
get_recent_logs_all(logs, count) == logs

\* LogReader.get_recent_logs
get_recent_logs(logs, count) == IF logs # <<>> THEN PyTail(logs, count) ELSE <<>>

\* the append of the continuous read loop: append, then limit memory
LoopAppend(logs, line, max_lines, cleanup_threshold) ==
    LET l == Append(logs, line)
    IN IF Len(l) > max_lines THEN PyTail(l, cleanup_threshold) ELSE l

\* the append of the initial snapshot phase
SnapshotAppend(logs, line) == Append(logs, line)

\* ConnectionManager.get_connection_count
get_connection_count(ac) == IF SRC \in DOMAIN ac THEN Cardinality(ac[SRC]) ELSE 0

\* messages: json.dumps({"type": ..., "logs"/"log": ...})
Msg(type, logs) == [type |-> type, logs |-> logs]
NoMsg == Msg("none", <<>>)

\* Python dicts keyed by the source id
EmptyDict == [s \in {} |-> 0]
DictOf(v) == [s \in {SRC} |-> v]

\* ------------------------------------------------------------ initial state
NoReader == [made |-> FALSE, running |-> FALSE, process |-> None, logs |-> <<>>,
             max_lines |-> cfg_max_lines, cleanup_threshold |-> cfg_cleanup_threshold]
\* LogReader.__init__
NewReader == [NoReader EXCEPT !.made = TRUE]
NoTask == [pc |-> "none", reader |-> None, initial_logs |-> <<>>, line_count |-> 0,
           timeout_count |-> 0, rpid |-> None, kind |-> "none", msg |-> NoMsg,
           connection |-> None, todo |-> {}, disconnected |-> {}]
NoSocket == [pc |-> "new", gone |-> FALSE]
NoProbe == [logs |-> <<>>, max_lines |-> 0, cleanup_threshold |-> 0, op |-> "none",
            arg |-> 0, before |-> <<>>, result |-> <<>>]

Init ==
    /\ active_connections = EmptyDict
    /\ active_readers = EmptyDict
    /\ readers = [i \in Sockets |-> NoReader]
    /\ procs = [i \in Sockets |-> "none"]
    /\ tasks = [i \in Sockets |-> NoTask]
    /\ sockets = [i \in Sockets |-> NoSocket]
    /\ inbox = [i \in Sockets |-> <<>>]
    /\ timers = 0
    /\ emitted = 0
    /\ raised = FALSE
    /\ probe = NoProbe

\* ------------------------------------------- start_reading, between awaits
\* The operators below take and return m = [rd, pr, tk, ib]: the readers, the
\* processes, the tasks and the inboxes; they compute what task t does from
\* the point named until it reaches its next await.  ch holds the choices the
\* run leaves open: ch.busy, whether a readline() called while another
\* coroutine waits on the same stream raises RuntimeError (the stream holds no
\* buffered data) or not, and ch.first, the handle a set iteration yields first.

\* task t is put at an await, its broadcast locals cleared
TaskAt(tk, t, pc, rpid) ==
    [tk EXCEPT ![t].pc = pc, ![t].rpid = rpid, ![t].kind = "none", ![t].msg = NoMsg,
               ![t].connection = None, ![t].todo = {}, ![t].disconnected = {}]

\* another coroutine is already waiting in readline() on process p's stdout
OtherWaiting(tk, t, p) ==
    \E u \in Sockets \ {t} : tk[u].pc \in {"snap_read", "loop_read"} /\ tk[u].rpid = p

\* Process.terminate(): a signal to a process that has not exited; on an
\* exited process it raises ProcessLookupError, which both callers swallow
Terminate(pr, p) == IF pr[p] = "exited" THEN pr ELSE [pr EXCEPT ![p] = "termsent"]

\* the finally block of start_reading (lines 272-279)
Finally(m, t) ==
    LET r == m.tk[t].reader
        p == m.rd[r].process
        rd1 == [m.rd EXCEPT ![r].running = FALSE]
        tk1 == [m.tk EXCEPT ![t].initial_logs = <<>>, ![t].line_count = 0,
                            ![t].timeout_count = 0]
    IN IF p # None /\ m.pr[p] # "exited"
         THEN [m EXCEPT !.rd = rd1, !.pr = Terminate(m.pr, p),
                        !.tk = TaskAt(tk1, t, "fin_wait", p)]
         ELSE [m EXCEPT !.rd = rd1, !.tk = TaskAt(tk1, t, "done", None)]

\* the head of the continuous read loop (lines 235-242)
LoopHead(m, t, ch) ==
    LET r == m.tk[t].reader
        p == m.rd[r].process
        tk1 == [m.tk EXCEPT ![t].initial_logs = <<>>, ![t].line_count = 0,
                            ![t].timeout_count = 0]
    IN IF ~m.rd[r].running THEN Finally(m, t)
       ELSE IF m.pr[p] = "exited" THEN Finally(m, t)
       ELSE IF ch.busy /\ OtherWaiting(m.tk, t, p) THEN Finally(m, t)
       ELSE [m EXCEPT !.tk = TaskAt(tk1, t, "loop_read", p)]

\* what follows a completed broadcast_to_source in start_reading
AfterBroadcast(m, t, kind, ch) ==
    IF kind = "error" THEN Finally(m, t) ELSE LoopHead(m, t, ch)

\* send_text(msg) called on handle c: the frame is written when the call is
\* made, and the call raises when the client is gone
SendTo(ib, c, msg) == IF sockets[c].gone THEN ib ELSE [ib EXCEPT ![c] = Append(@, msg)]

\* broadcast_to_source up to the await of its first send (lines 132-140)
StartBroadcast(m, t, kind, msg, ac, ch) ==
    IF SRC \notin DOMAIN ac THEN AfterBroadcast(m, t, kind, ch)
    ELSE LET c == IF ch.first \in ac[SRC] THEN ch.first ELSE CHOOSE x \in ac[SRC] : TRUE
         IN [m EXCEPT !.ib = SendTo(m.ib, c, msg),
                      !.tk = [TaskAt(m.tk, t, "bcast", None) EXCEPT
                                 ![t].kind = kind, ![t].msg = msg,
                                 ![t].connection = c,
                                 ![t].todo = ac[SRC] \ {c},
                                 ![t].disconnected = IF sockets[c].gone THEN {c} ELSE {}]]

\* the failure is swallowed: no error message is broadcast
ErrorPathSilent(m, t, ac, ch) == Finally(m, t)

\* the except block of start_reading (lines 265-271)
ErrorPath(m, t, ac, ch) == StartBroadcast(m, t, "error", Msg("error", <<>>), ac, ch)

\* the head of the initial snapshot loop (lines 206-210) and what follows the
\* loop (lines 222-227)
SnapHead(m, t, ac, ch) ==
    LET r == m.tk[t].reader
        p == m.rd[r].process
    IN IF m.tk[t].line_count < max_initial_lines /\ m.tk[t].timeout_count < max_timeouts
         THEN IF ch.busy /\ OtherWaiting(m.tk, t, p) THEN ErrorPath(m, t, ac, ch)
              ELSE [m EXCEPT !.tk = TaskAt(m.tk, t, "snap_read", p)]
         ELSE StartBroadcast(m, t, "initial_logs",
                             Msg("initial_logs", m.tk[t].initial_logs), ac, ch)

\* the snapshot loop left by break (line 212)
SnapBreak(m, t, ac, ch) ==
    StartBroadcast(m, t, "initial_logs", Msg("initial_logs", m.tk[t].initial_logs), ac, ch)

M == [rd |-> readers, pr |-> procs, tk |-> tasks, ib |-> inbox]
SetM(m) == readers' = m.rd /\ procs' = m.pr /\ tasks' = m.tk /\ inbox' = m.ib
\* the choices that can matter in the current state
Choices ==
    [busy : IF \E u \in Sockets : tasks[u].pc \in {"snap_read", "loop_read"}
              THEN BOOLEAN ELSE {FALSE},
     first : IF SRC \in DOMAIN active_connections THEN active_connections[SRC] ELSE {1}]

\* --------------------------------------------------------- ConnectionManager
\* ConnectionManager.connect after accept() (lines 120-122)
connect(ac, w) == IF SRC \in DOMAIN ac THEN DictOf(ac[SRC] \cup {w}) ELSE DictOf({w})

\* a set of handles discarded from the source's entry, an emptied entry deleted
\* (lines 126-128 and 146-151)
Discard(ac, ws) ==
    IF SRC \notin DOMAIN ac THEN ac
    ELSE IF ac[SRC] \ ws = {} THEN EmptyDict ELSE DictOf(ac[SRC] \ ws)

\* ConnectionManager.disconnect
disconnect(ac, w) == Discard(ac, {w})

\* LogReader.stop_reading: m with reader r stopped
stop_reading(m, r) ==
    LET p == m.rd[r].process
    IN [m EXCEPT !.rd = [m.rd EXCEPT ![r].running = FALSE],
                 !.pr = IF p # None THEN Terminate(m.pr, p) ELSE m.pr]

\* ------------------------------------------------------ websocket_endpoint
\* a reader record is created by every attach, whether one exists or not
NeedsNewReaderAlways(ar) == TRUE

\* line 486: the source has no reader record yet
NeedsNewReader(ar) == SRC \notin DOMAIN ar

\* websocket_endpoint resumed from accept(): lines 120-122 and 482-500, up to
\* the await of send_text (line 496, the frame written) or of receive_text
\* (line 505)
Attach(w) ==
    /\ sockets[w].pc = "new"
    /\ \A v \in Sockets : v < w => sockets[v].pc # "new"
    /\ active_connections' = connect(active_connections, w)
    /\ LET fresh == NeedsNewReader(active_readers)
           r == IF fresh THEN w ELSE active_readers[SRC]
           rd1 == IF fresh THEN [readers EXCEPT ![w] = NewReader] ELSE readers
       IN /\ active_readers' = DictOf(r)
          /\ readers' = rd1
          /\ IF ~rd1[r].running
               THEN \* asyncio.create_task(reader.start_reading(...))
                    /\ tasks' = [tasks EXCEPT ![w] = [NoTask EXCEPT !.pc = "scheduled",
                                                                  !.reader = r]]
                    /\ sockets' = [sockets EXCEPT ![w].pc = "open"]
                    /\ inbox' = inbox
               ELSE LET recent_logs == get_recent_logs(rd1[r].logs, recent_count)
                    IN /\ tasks' = tasks
                       /\ IF recent_logs # <<>>
                            THEN /\ sockets' = [sockets EXCEPT ![w].pc = "send_initial"]
                                 /\ inbox' = SendTo(inbox, w, Msg("initial_logs", recent_logs))
                            ELSE /\ sockets' = [sockets EXCEPT ![w].pc = "open"]
                                 /\ inbox' = inbox
    /\ UNCHANGED <<procs, timers, emitted, raised, probe>>

\* the await of send_text at line 496 ends: normally, or the client has gone
\* meanwhile and the exception leaves the handler (line 496 is outside the
\* try of line 502, so the finally block does not run)
SendInitial(w) ==
    /\ sockets[w].pc = "send_initial"
    /\ IF sockets[w].gone
         THEN /\ sockets' = [sockets EXCEPT ![w].pc = "crashed"]
              /\ inbox' = [inbox EXCEPT ![w] = <<>>]
         ELSE /\ sockets' = [sockets EXCEPT ![w].pc = "open"]
              /\ inbox' = inbox
    /\ UNCHANGED <<active_connections, active_readers, readers, procs, tasks, timers,
                   emitted, raised, probe>>

\* the remote client goes away: from now on a send to the socket fails and
\* receive_text raises WebSocketDisconnect
ClientDrop(w) ==
    /\ sockets[w].pc \in {"send_initial", "open"}
    /\ ~sockets[w].gone
    /\ sockets' = [sockets EXCEPT ![w].gone = TRUE]
    /\ UNCHANGED <<active_connections, active_readers, readers, procs, tasks, inbox,
                   timers, emitted, raised, probe>>

\* receive_text raises: the finally block of websocket_endpoint (lines 516-525)
Detach(w) ==
    /\ sockets[w].pc = "open"
    /\ sockets[w].gone
    /\ sockets' = [sockets EXCEPT ![w].pc = "closed"]
    /\ active_connections' = disconnect(active_connections, w)
    /\ LET m == [M EXCEPT !.ib = [inbox EXCEPT ![w] = <<>>]]
       IN IF get_connection_count(active_connections') = 0
              /\ SRC \in DOMAIN active_readers
            THEN /\ SetM(stop_reading(m, active_readers[SRC]))
                 /\ timers' = timers + 1
            ELSE /\ SetM(m)
                 /\ timers' = timers
    /\ UNCHANGED <<active_readers, emitted, raised, probe>>

\* cleanup_reader_later after its sleep (lines 321-324).  The sleep is 30 s
\* and a task made by create_task runs in the next loop iteration, so the
\* timer never fires before a scheduled task has taken its first step.
CleanupFire ==
    /\ timers > 0
    /\ \A t \in Sockets : tasks[t].pc # "scheduled"
    /\ timers' = timers - 1
    /\ active_readers' =
         IF /\ SRC \in DOMAIN active_readers
            /\ get_connection_count(active_connections) = 0
            /\ ~readers[active_readers[SRC]].running
         THEN EmptyDict ELSE active_readers
    /\ UNCHANGED <<active_connections, readers, procs, tasks, sockets, inbox, emitted,
                   raised, probe>>

\* ------------------------------------------------------------ start_reading
\* the first run of a start_reading task (lines 173-191), up to the await of
\* create_subprocess_exec
TaskStart(t) ==
    /\ tasks[t].pc = "scheduled"
    /\ LET r == tasks[t].reader
       IN IF readers[r].running
            THEN /\ tasks' = [tasks EXCEPT ![t].pc = "done"]
                 /\ readers' = readers
            ELSE /\ tasks' = [tasks EXCEPT ![t].pc = "spawning"]
                 /\ readers' = [readers EXCEPT ![r].running = TRUE]
    /\ UNCHANGED <<active_connections, active_readers, procs, sockets, inbox, timers,
                   emitted, raised, probe>>

\* create_subprocess_exec returns the new process (lines 191-210); the
\* process spawned by task t has pid t
SpawnOk(t) ==
    /\ tasks[t].pc = "spawning"
    /\ \E ch \in Choices :
         LET r == tasks[t].reader
             m1 == [M EXCEPT !.rd = [readers EXCEPT ![r].process = t],
                             !.pr = [procs EXCEPT ![t] = "alive"]]
         IN SetM(SnapHead(m1, t, active_connections, ch))
    /\ UNCHANGED <<active_connections, active_readers, sockets, timers, emitted,
                   raised, probe>>

\* create_subprocess_exec raises (lines 265-271)
SpawnFail(t) ==
    /\ tasks[t].pc = "spawning"
    /\ \E ch \in Choices : SetM(ErrorPath(M, t, active_connections, ch))
    /\ UNCHANGED <<active_connections, active_readers, sockets, timers, emitted,
                   raised, probe>>

\* wait_for(readline(), 2.0) of the snapshot phase ends (lines 208-227) with
\* what: a non-blank line, a blank line, end of stream or a timeout
SnapReadStep(t, what) ==
    /\ tasks[t].pc = "snap_read"
    /\ \E ch \in Choices :
         LET r == tasks[t].reader
             p == tasks[t].rpid
             line == <<p, emitted + 1>>
         IN \/ /\ what = "line"
               /\ procs[p] \in {"alive", "termsent"}
               /\ emitted' = emitted + 1
               /\ SetM(SnapHead(
                     [M EXCEPT !.rd = [readers EXCEPT ![r].logs = SnapshotAppend(@, line)],
                               !.tk = [tasks EXCEPT ![t].initial_logs = Append(@, line),
                                                    ![t].line_count = @ + 1]],
                     t, active_connections, ch))
            \/ /\ what = "blank"
               /\ procs[p] \in {"alive", "termsent"}
               /\ emitted' = emitted
               /\ SetM(SnapHead(M, t, active_connections, ch))
            \/ /\ what = "eof"
               /\ procs[p] = "exited"
               /\ emitted' = emitted
               /\ SetM(SnapBreak(M, t, active_connections, ch))
            \/ /\ what = "timeout"
               /\ emitted' = emitted
               /\ SetM(SnapHead([M EXCEPT !.tk = [tasks EXCEPT ![t].timeout_count = @ + 1]],
                                t, active_connections, ch))
    /\ UNCHANGED <<active_connections, active_readers, sockets, timers, raised>>

SnapReadAs(t, what) == SnapReadStep(t, what) /\ UNCHANGED probe

SnapRead(t) == \E what \in {"line", "blank", "eof", "timeout"} : SnapReadAs(t, what)

\* readline() of the continuous read loop ends (lines 242-259) with what: a
\* non-blank line, a blank line or end of stream
LoopReadAs(t, what) ==
    /\ tasks[t].pc = "loop_read"
    /\ \E ch \in Choices :
         LET r == tasks[t].reader
             p == tasks[t].rpid
             line == <<p, emitted + 1>>
         IN \/ /\ what = "line"
               /\ procs[p] \in {"alive", "termsent"}
               /\ emitted' = emitted + 1
               /\ SetM(StartBroadcast(
                     [M EXCEPT !.rd = [readers EXCEPT ![r].logs =
                         LoopAppend(@, line, readers[r].max_lines,
                                    readers[r].cleanup_threshold)]],
                     t, "new_log", Msg("new_log", <<line>>), active_connections, ch))
            \/ /\ what = "blank"
               /\ procs[p] \in {"alive", "termsent"}
               /\ emitted' = emitted
               /\ SetM(LoopHead(M, t, ch))
            \/ /\ what = "eof"
               /\ procs[p] = "exited"
               /\ emitted' = emitted
               /\ SetM(Finally(M, t))
    /\ UNCHANGED <<active_connections, active_readers, sockets, timers, raised, probe>>

LoopRead(t) == \E what \in {"line", "blank", "eof"} : LoopReadAs(t, what)

\* the await of a send_text of broadcast_to_source ends (lines 138-151): the
\* next handle of the copy is sent to, or, after the last one, the
\* disconnected handles are discarded, which raises KeyError when the
\* source's entry has been deleted meanwhile.  The KeyError is caught in
\* start_reading by the except of line 261 or 265 (the error broadcast that
\* follows finds no entry and returns) or passes through the finally block.
BcastSend(t) ==
    /\ tasks[t].pc = "bcast"
    /\ IF tasks[t].todo # {}
         THEN /\ \E c \in tasks[t].todo :
                   /\ inbox' = SendTo(inbox, c, tasks[t].msg)
                   /\ tasks' = [tasks EXCEPT
                         ![t].connection = c,
                         ![t].todo = @ \ {c},
                         ![t].disconnected = IF sockets[c].gone THEN @ \cup {c} ELSE @]
              /\ UNCHANGED <<active_connections, readers, procs, raised>>
         ELSE LET disc == tasks[t].disconnected
                  keyError == disc # {} /\ SRC \notin DOMAIN active_connections
              IN /\ active_connections' = Discard(active_connections, disc)
                 /\ raised' = (raised \/ keyError)
                 /\ \E ch \in Choices :
                       IF keyError THEN SetM(Finally(M, t))
                       ELSE SetM(AfterBroadcast(M, t, tasks[t].kind, ch))
    /\ UNCHANGED <<active_readers, sockets, timers, emitted, probe>>

\* the process exits: by itself, or after a terminate signal
ProcExit(p) ==
    /\ procs[p] \in {"alive", "termsent"}
    /\ procs' = [procs EXCEPT ![p] = "exited"]
    /\ UNCHANGED <<active_connections, active_readers, readers, tasks, sockets, inbox,
                   timers, emitted, raised, probe>>

\* await self.process.wait() of the finally block ends (line 277)
FinWait(t) ==
    /\ tasks[t].pc = "fin_wait"
    /\ procs[tasks[t].rpid] = "exited"
    /\ tasks' = [tasks EXCEPT ![t].pc = "done", ![t].rpid = None]
    /\ UNCHANGED <<active_connections, active_readers, readers, procs, sockets, inbox,
                   timers, emitted, raised, probe>>

\* every operation of the program, in any interleaving, the source emitting
\* MaxEmit lines at most
Next ==
    \/ \E w \in Clients : Attach(w)
    \/ \E w \in Sockets : SendInitial(w)
    \/ \E w \in Sockets : ClientDrop(w)
    \/ \E w \in Sockets : Detach(w)
    \/ CleanupFire
    \/ \E t \in Sockets : TaskStart(t)
    \/ \E t \in Sockets : SpawnOk(t)
    \/ \E t \in Sockets : SpawnFail(t)
    \/ \E t \in Sockets : SnapRead(t) /\ emitted' <= MaxEmit
    \/ \E t \in Sockets : LoopRead(t) /\ emitted' <= MaxEmit
    \/ \E t \in Sockets : BcastSend(t)
    \/ \E p \in Sockets : ProcExit(p)
    \/ \E t \in Sockets : FinWait(t)

Spec == Init /\ [][Next]_vars

\* RestartSpec: the same program with clients that subscribe only while no
\* start_reading task is in flight, so that no two runs of a reader ever
\* overlap and no subscriber is a late one.
AttachIdle(w) ==
    /\ \A t \in Sockets : tasks[t].pc \in {"none", "done"}
    /\ Attach(w)

RestartNext ==
    \/ \E w \in Clients : AttachIdle(w)
    \/ \E w \in Sockets : ClientDrop(w)
    \/ \E w \in Sockets : Detach(w)
    \/ CleanupFire
    \/ \E t \in Sockets : TaskStart(t)
    \/ \E t \in Sockets : SpawnOk(t)
    \/ \E t \in Sockets : SpawnFail(t)
    \/ \E t \in Sockets : SnapRead(t) /\ emitted' <= MaxRestartEmit
    \/ \E t \in Sockets : LoopRead(t) /\ emitted' <= MaxRestartEmit
    \/ \E t \in Sockets : BcastSend(t)
    \/ \E p \in Sockets : ProcExit(p)
    \/ \E t \in Sockets : FinWait(t)

RestartSpec == Init /\ [][RestartNext]_vars

\* OverlapSpec: the same program with one more client, in a calm environment:
\* only the first client ever leaves, no spawn fails, no process exits, the
\* source is silent while a snapshot is taken (every snapshot read times
\* out) and every read of the continuous loop returns a line, of which the
\* source emits MaxOverlapEmit at most.
OverlapNext ==
    \/ \E w \in Sockets : Attach(w)
    \/ \E w \in Sockets : SendInitial(w)
    \/ ClientDrop(1)
    \/ Detach(1)
    \/ \E t \in Sockets : TaskStart(t)
    \/ \E t \in Sockets : SpawnOk(t)
    \/ \E t \in Sockets : SnapReadAs(t, "timeout")
    \/ \E t \in Sockets : LoopReadAs(t, "line") /\ emitted' <= MaxOverlapEmit
    \/ \E t \in Sockets : BcastSend(t)

OverlapSpec == Init /\ [][OverlapNext]_vars

\* ------------------------------------------------------------- caller errors
\* the handle is registered before the request is validated
RejectedAfterConnect(ac, w) == connect(ac, w)

\* lines 470-478: the handler returns before connection_manager.connect is
\* reached, so the connection table is as it was
Rejected(ac, w) == ac

\* websocket_endpoint for a request without a valid session or for a source
\* id that is not configured (lines 461-478): close(4001 / 4004) and return
Reject(w) ==
    /\ sockets[w].pc = "new"
    /\ \A v \in Sockets : v < w => sockets[v].pc # "new"
    /\ sockets' = [sockets EXCEPT ![w].pc = "rejected"]
    /\ active_connections' = Rejected(active_connections, w)
    /\ UNCHANGED <<active_readers, readers, procs, tasks, inbox, timers, emitted,
                   raised, probe>>

\* GET /api/sources/{source_id}/recent (lines 418-429) with the default count:
\* 404 when the source has no reader record, else the recent lines; the
\* response is kept in probe
ApiRecent ==
    /\ probe' =
         IF SRC \notin DOMAIN active_readers
           THEN [NoProbe EXCEPT !.op = "recent_404"]
           ELSE [NoProbe EXCEPT !.op = "recent_200", !.arg = recent_count,
                    !.result = get_recent_logs(readers[active_readers[SRC]].logs,
                                               recent_count)]
    /\ UNCHANGED <<active_connections, active_readers, readers, procs, tasks, sockets,
                   inbox, timers, emitted, raised>>

\* CallerSpec: the program of RestartSpec with, in addition, rejected
\* websocket requests and recent-lines requests
CallerNext ==
    \/ RestartNext
    \/ \E w \in Clients : Reject(w)
    \/ ApiRecent

CallerSpec == Init /\ [][CallerNext]_vars

\* ------------------------------------------------------------ snapshot phase
\* the lines (blank ones included) that the snapshot loop of task t has read
\* from its process so far; probe.logs records the reading task of each
SnapLines(t) == Cardinality({i \in DOMAIN probe.logs : probe.logs[i] = t})

\* one readline() of the snapshot loop, recording each line it returns
SnapReadCounted(t) ==
    \E what \in {"line", "blank", "eof", "timeout"} :
        /\ SnapReadStep(t, what)
        /\ probe' = IF what \in {"line", "blank"}
                      THEN [probe EXCEPT !.logs = Append(@, t)]
                      ELSE probe
        /\ SnapLines(t) < MaxSnapLines

\* SnapSpec: the program of RestartSpec, with the lines read by each snapshot
\* loop recorded
SnapNext ==
    \/ \E w \in Clients : AttachIdle(w)
    \/ \E w \in Sockets : ClientDrop(w)
    \/ \E w \in Sockets : Detach(w)
    \/ CleanupFire
    \/ \E t \in Sockets : TaskStart(t)
    \/ \E t \in Sockets : SpawnOk(t)
    \/ \E t \in Sockets : SpawnFail(t)
    \/ \E t \in Sockets : SnapReadCounted(t) /\ emitted' <= MaxRestartEmit
    \/ \E t \in Sockets : LoopRead(t) /\ emitted' <= MaxRestartEmit
    \/ \E t \in Sockets : BcastSend(t)
    \/ \E p \in Sockets : ProcExit(p)
    \/ \E t \in Sockets : FinWait(t)

SnapSpec == Init /\ [][SnapNext]_vars

\* ------------------------------------------------- the buffer operations alone
\* BufSpec applies the buffer operations of LogReader to one buffer, for every
\* configuration 0 <= cleanup_threshold < max_lines <= MaxCfgLines: the lines
\* 1, 2, 3, ... are appended as the continuous read loop appends them, and
\* get_recent_logs is called with every count.
BufInit ==
    /\ Init!1 /\ Init!2 /\ Init!3 /\ Init!4 /\ Init!5 /\ Init!6 /\ Init!7 /\ Init!8
    /\ Init!9 /\ Init!10
    /\ \E ml \in 1..MaxCfgLines, ct \in 0..(MaxCfgLines - 1) :
          /\ ct < ml
          /\ probe = [NoProbe EXCEPT !.max_lines = ml, !.cleanup_threshold = ct]

\* lines 246-253 applied to the probe buffer; arg is the line appended
ProbeAppend ==
    /\ probe.max_lines > 0
    /\ LET line == IF probe.op = "append" THEN probe.arg + 1
                   ELSE IF probe.logs = <<>> THEN 1
                   ELSE probe.logs[Len(probe.logs)] + 1
       IN /\ line <= MaxAppends
          /\ probe' = [probe EXCEPT !.op = "append", !.arg = line, !.before = probe.logs,
                          !.result = <<>>,
                          !.logs = LoopAppend(probe.logs, line, probe.max_lines,
                                              probe.cleanup_threshold)]
    /\ UNCHANGED <<active_connections, active_readers, readers, procs, tasks, sockets,
                   inbox, timers, emitted, raised>>

\* LogReader.get_recent_logs(count) applied to the probe buffer
ProbeRecent ==
    /\ probe.max_lines > 0
    /\ \E count \in 0..(MaxCfgLines + 1) :
          probe' = [probe EXCEPT !.op = "recent", !.arg = count, !.before = probe.logs,
                       !.result = get_recent_logs(probe.logs, count)]
    /\ UNCHANGED <<active_connections, active_readers, readers, procs, tasks, sockets,
                   inbox, timers, emitted, raised>>

BufNext == ProbeAppend \/ ProbeRecent

BufSpec == BufInit /\ [][BufNext]_vars

\* ================================================================== claims
Attached(w) == sockets[w].pc \in {"send_initial", "open"}
Spawned == {p \in Sockets : procs[p] # "none"}
Alive == {p \in Sockets : procs[p] = "alive"}
\* the last k elements of s, for 0 <= k <= Len(s)
LastK(s, k) == [i \in 1..k |-> s[Len(s) - k + i]]

\* C1: at any moment at most one process spawned for the source is alive
\* (spawned, not sent a terminate, not exited) and at most one reader record
\* exists for the source.
C1_OneProcessAlive ==
    /\ Cardinality(Alive) <= 1
    /\ Cardinality(DOMAIN active_readers) <= 1

\* Subscribe (socket 1), Unsubscribe of socket 1 as the last subscriber,
\* Subscribe again (socket 2), the cleanup timer of the detach still
\* sleeping and nothing else having happened at the transport.
InResubscribe ==
    /\ sockets[1].pc = "closed"
    /\ Attached(2) /\ ~sockets[2].gone
    /\ \A w \in Sockets : w > 2 => sockets[w].pc = "new"
    /\ timers = 1

C3_TeardownOnlyWhenEmpty ==
    [][\A t, p \in Sockets :
          (/\ tasks[t].pc = "loop_read" /\ procs[tasks[t].rpid] = "exited"
           /\ tasks'[t].pc # "loop_read"
           /\ procs[p] = "alive" /\ procs'[p] = "termsent")
              => get_connection_count(active_connections') = 0]_vars

\* no handler is between attach and detach, and no coroutine has a step left
\* other than a read of a process that is alive and silent
Quiescent ==
    /\ get_connection_count(active_connections) = 0
    /\ \A w \in Sockets : sockets[w].pc \in {"new", "closed", "crashed"}
    /\ \A t \in Sockets :
          \/ tasks[t].pc \in {"none", "done"}
          \/ tasks[t].pc = "loop_read" /\ procs[tasks[t].rpid] = "alive"
    /\ \A p \in Sockets : procs[p] # "termsent"
    /\ timers = 0

\* C4: once the subscribers are gone and every coroutine has run as far as
\* it can (no subscriber attaching afterwards), no reader is running and no
\* process is left alive.
C4_StoppedWhenQuiescent ==
    (Quiescent /\ \E w \in Sockets : sockets[w].pc # "new") =>
        /\ \A r \in Sockets : ~readers[r].running
        /\ Alive = {}

\* C5: the buffer of every reader holds at most max_lines lines after every
\* append, in the snapshot phase and in the read loop, across restarts.
C5_BufferBound == \A r \in Sockets : Len(readers[r].logs) <= readers[r].max_lines

\* C6: an append that makes the buffer longer than max_lines leaves exactly
\* the cleanup_threshold most recent lines, in order; any other append only
\* adds the line at the end (for every 0 <= cleanup_threshold < max_lines).
C6_OverflowLaw ==
    probe.op = "append" =>
        LET l == Append(probe.before, probe.arg)
        IN IF Len(l) > probe.max_lines
             THEN probe.logs = LastK(l, probe.cleanup_threshold)
             ELSE probe.logs = l

\* C7: get_recent_logs(n), n >= 0, returns exactly the last min(n, len)
\* lines of the buffer in order, never more than n, and leaves the buffer
\* unchanged.
C7_Recent ==
    probe.op = "recent" =>
        /\ probe.result = LastK(probe.before, Min(probe.arg, Len(probe.before)))
        /\ Len(probe.result) <= probe.arg
        /\ probe.logs = probe.before

\* C8: the new_log messages delivered to a subscriber carry the lines of a
\* process in the order the process emitted them.
C8_PerSubscriberOrder ==
    \A w \in Sockets : \A i, j \in DOMAIN inbox[w] :
        (/\ i < j
         /\ inbox[w][i].type = "new_log" /\ inbox[w][j].type = "new_log"
         /\ inbox[w][i].logs[1][1] = inbox[w][j].logs[1][1])
            => inbox[w][i].logs[1][2] < inbox[w][j].logs[1][2]

\* the step is the attach of socket w to a source whose reader is running
LateAttach(w) ==
    /\ sockets[w].pc = "new" /\ sockets'[w].pc # "new"
    /\ SRC \in DOMAIN active_readers
    /\ readers[active_readers[SRC]].running

\* C9 (as claimed): a late subscriber starts no process and is sent, in the
\* step that attaches it, one initial_logs message holding the whole buffer,
\* whatever its length.
C9_LateGetsWholeBuffer ==
    [][\A w \in Sockets : LateAttach(w) =>
          /\ tasks'[w].pc = "none"
          /\ inbox'[w] = <<Msg("initial_logs", readers[active_readers[SRC]].logs)>>]_vars

\* C9 (amended): a late subscriber starts no process; when the buffer is
\* empty it is sent no initial_logs message, and otherwise it is sent, in the
\* step that attaches it and so before its handler waits for anything, one
\* initial_logs message holding the last min(recent_count, len) lines of the
\* buffer.
C9_LateGetsRecent ==
    [][\A w \in Sockets : LateAttach(w) =>
          LET logs == readers[active_readers[SRC]].logs
          IN /\ tasks'[w].pc = "none" /\ procs' = procs
             /\ IF logs = <<>>
                  THEN sockets'[w].pc = "open" /\ inbox'[w] = <<>>
                  ELSE /\ sockets'[w].pc = "send_initial"
                       /\ inbox'[w] = <<Msg("initial_logs",
                                            LastK(logs, Min(recent_count, Len(logs))))>>]_vars

\* C9 witness: a late subscriber has been sent the last recent_count lines
\* of a buffer that is longer than that.
C9_Witness ==
    \E w \in Sockets :
        /\ tasks[w].pc = "none" /\ sockets[w].pc = "send_initial"
        /\ inbox[w] # <<>> /\ inbox[w][1].type = "initial_logs"
        /\ Len(inbox[w][1].logs) = recent_count
        /\ SRC \in DOMAIN active_readers
        /\ Len(readers[active_readers[SRC]].logs) > recent_count

\* C10: broadcast_to_source never propagates an exception to its caller, even
\* when handlers detach while the broadcast is suspended in a send: a
\* broadcast resumed from a send that did not fail, with no handle left to
\* send to, completes without raising.
C10_NeverPropagates ==
    [][\A t \in Sockets :
          (/\ tasks[t].pc = "bcast" /\ tasks[t].todo = {}
           /\ tasks[t].connection \notin tasks[t].disconnected
           /\ tasks'[t].pc # "bcast")
              => raised' = raised]_vars

\* task t is the start_reading run whose spawn failed and is broadcasting the
\* error (a run that spawned, spawned the process of pid t)
InSpawnError(t) == tasks[t].pc = "bcast" /\ tasks[t].kind = "error" /\ procs[t] = "none"

\* C11: a failed spawn broadcasts the error message once to each subscriber
\* attached at the moment of the failure (the handles of the copy taken then,
\* one send each, nothing sent to anyone else), sends no initial_logs or
\* new_log, leaves the reader not running, and spawns nothing: the run ends
\* and stays ended.
C11_SpawnFailure ==
    [][\A t \in Sockets :
          LET r == tasks[t].reader
              c == tasks'[t].connection
              sentTo(w) == IF w = c /\ ~sockets[w].gone
                             THEN Append(inbox[w], Msg("error", <<>>)) ELSE inbox[w]
              ended == /\ tasks'[t].pc \in {"done", "fin_wait"}
                       /\ ~readers'[r].running
                       /\ inbox' = inbox
          IN /\ (tasks[t].pc = "spawning" /\ tasks'[t].pc # "spawning" /\ procs'[t] = "none")
                  => /\ Spawned' = Spawned
                     /\ IF SRC \in DOMAIN active_connections
                          THEN /\ tasks'[t].pc = "bcast" /\ tasks'[t].msg = Msg("error", <<>>)
                               /\ {c} \cup tasks'[t].todo = active_connections[SRC]
                               /\ c \notin tasks'[t].todo
                               /\ inbox' = [w \in Sockets |-> sentTo(w)]
                          ELSE ended
             /\ (InSpawnError(t) /\ tasks'[t] # tasks[t])
                  => /\ Spawned' = Spawned
                     /\ IF tasks[t].todo # {}
                          THEN /\ tasks'[t].pc = "bcast" /\ tasks'[t].msg = Msg("error", <<>>)
                               /\ c \in tasks[t].todo
                               /\ tasks'[t].todo = tasks[t].todo \ {c}
                               /\ inbox' = [w \in Sockets |-> sentTo(w)]
                          ELSE ended
             /\ (procs[t] = "none" /\ tasks[t].pc \in {"fin_wait", "done"})
                  => /\ tasks'[t].pc \in {"fin_wait", "done"}
                     /\ procs'[t] = "none"]_vars

\* C11 witness: the spawn of a run failed while two subscribers were attached,
\* each of them has been sent the error message and nothing else, and the
\* run has ended with the reader not running.
C11_Witness ==
    \E t \in Sockets :
        /\ tasks[t].pc = "done" /\ procs[t] = "none" /\ ~readers[tasks[t].reader].running
        /\ Attached(1) /\ Attached(2)
        /\ inbox[1] = <<Msg("error", <<>>)>> /\ inbox[2] = <<Msg("error", <<>>)>>

\* task t is in the snapshot phase of a run (from the spawn to the end of the
\* snapshot loop)
InSnapshotPhase(t) == tasks[t].pc \in {"spawning", "snap_read"}

\* C12: every run whose process spawned leaves its snapshot phase by
\* broadcasting its snapshot as one initial_logs message, empty or not, to
\* the subscribers there are, and sends a new_log only from the read loop
\* that follows that broadcast.
C12_SnapshotBeforeStream ==
    [][\A t \in Sockets :
          /\ (/\ InSnapshotPhase(t) /\ ~InSnapshotPhase(t)'
              /\ procs'[t] # "none"
              /\ SRC \in DOMAIN active_connections)
                 => /\ tasks'[t].pc = "bcast"
                    /\ tasks'[t].msg = Msg("initial_logs", tasks'[t].initial_logs)
          /\ (tasks'[t].kind = "new_log" /\ tasks[t].kind # "new_log")
                 => tasks[t].pc = "loop_read"
          /\ (tasks'[t].pc = "loop_read" /\ tasks[t].pc # "loop_read")
                 => \/ tasks[t].pc = "bcast" /\ tasks[t].kind \in {"initial_logs", "new_log"}
                    \/ InSnapshotPhase(t) /\ SRC \notin DOMAIN active_connections]_vars

\* C13: the reader record is discarded only with no subscriber attached and
\* only by the cleanup timer of the most recent last-detach, never by the
\* timer of an earlier detach after which the population rose again.  Every
\* timer sleeps the same delay, so the timers fire in the order in which the
\* last-detaches started them: the timer that fires is the one of the most
\* recent last-detach exactly when no other timer is sleeping.
C13_GracePeriod ==
    [][(SRC \in DOMAIN active_readers /\ SRC \notin DOMAIN active_readers')
          => /\ get_connection_count(active_connections) = 0
             /\ timers = 1]_vars

\* Subscribe by socket 1, then Unsubscribe of socket 1, no other subscriber
\* ever having come
OnlyFirstCame ==
    /\ sockets[1].pc = "closed"
    /\ \A w \in Sockets : w > 1 => sockets[w].pc = "new"

\* C14: after Subscribe and Unsubscribe of the same handle with no other
\* subscriber, the reader is stopped and its record retained while the
\* cleanup timer of the detach sleeps, the record is discarded once the
\* timer has fired, and a process the reader has spawned has been sent the
\* terminate request of the detach.
C14_PopulationLaw ==
    OnlyFirstCame =>
        /\ timers = 1 => (active_readers = DictOf(1) /\ ~readers[1].running)
        /\ timers = 0 => active_readers = EmptyDict
        /\ procs[1] # "alive"

\* lines 284-288: what stop_reading sends: `self.process.terminate()` signals
\* the process unless there is none or it has exited (then terminate() raises
\* and the bare except swallows it)
StopSignals(m, r) ==
    LET p == m.rd[r].process
    IN IF p # None /\ m.pr[p] # "exited" THEN {p} ELSE {}

\* reader r is as a stop_reading call leaves it: not running, its process
\* (if any) already sent a terminate or exited
Stopped(r) ==
    /\ ~readers[r].running
    /\ readers[r].process # None => procs[readers[r].process] \in {"termsent", "exited"}

\* C15: a stop_reading call on a reader that is already stopped (a second
\* call in succession, or a call on a reader never started) changes nothing
\* and sends no termination request.
C15_StopIdempotent ==
    [][\A w \in Sockets :
          (/\ sockets[w].pc = "open" /\ sockets'[w].pc = "closed"
           /\ get_connection_count(active_connections') = 0
           /\ SRC \in DOMAIN active_readers
           /\ Stopped(active_readers[SRC]))
              => /\ readers' = readers /\ procs' = procs
                 /\ StopSignals(M, active_readers[SRC]) = {}]_vars

\* C16: caller errors change no state.  A websocket request that is rejected
\* (no valid session, or no configured source) leaves the subscriber sets, the
\* reader records, the processes, the tasks and the timers as they were; a
\* recent-lines request made while the source has no reader record is answered
\* with the not-active error and leaves the same state as it was.
C16_CallerErrors ==
    [][/\ \A w \in Sockets :
             (sockets[w].pc = "new" /\ sockets'[w].pc = "rejected")
                => UNCHANGED <<active_connections, active_readers, readers, procs,
                               tasks, inbox, timers>>
       /\ (probe' # probe /\ SRC \notin DOMAIN active_readers)
             => /\ probe'.op = "recent_404"
                /\ UNCHANGED <<active_connections, active_readers, readers, procs,
                               tasks, inbox, timers>>]_vars

\* a request was rejected while another subscriber was attached, and a
\* recent-lines request has been answered with the not-active error
C16_Witness ==
    /\ \E w \in Sockets : sockets[w].pc = "rejected"
    /\ \E w \in Sockets : sockets[w].pc = "open" /\ Attached(w)
    /\ probe.op = "recent_404"

\* a start_reading task that is past its running guard and has not reached
\* its finally block: it can still append to the buffer or broadcast
InReadLoop(t) == tasks[t].pc \in {"spawning", "snap_read", "bcast", "loop_read"}

\* C17: single read loop.  In every reachable state at most one start_reading
\* task of a reader is past its running guard and still able to append to the
\* buffer or to broadcast.
C17_SingleReadLoop ==
    \A r \in Sockets :
        Cardinality({t \in Sockets : tasks[t].reader = r /\ InReadLoop(t)}) <= 1

\* C18: snapshot phase terminates.  Whatever the process emits (blank and
\* whitespace-only lines included), the snapshot loop of a task reads at most
\* max_initial_lines lines from the process before the phase ends.
C18_SnapshotBounded ==
    \A t \in Sockets : SnapLines(t) <= max_initial_lines

\* the number of times line l has been delivered to handle w, over the
\* initial_logs and new_log messages sent to it
Deliveries(w, l) ==
    Cardinality({<<i, j>> \in (DOMAIN inbox[w]) \X (1..MaxEmit) :
                    /\ inbox[w][i].type \in {"initial_logs", "new_log"}
                    /\ j \in DOMAIN inbox[w][i].logs
                    /\ inbox[w][i].logs[j] = l})

\* C19: at-most-once delivery per handle.  Every line read from the source's
\* process is delivered to a subscribed handle at most once, over the
\* initial_logs messages (broadcast snapshot and direct late-subscriber
\* message) and the new_log messages together.
C19_AtMostOnce ==
    \A w \in Sockets : \A p \in Sockets : \A n \in 1..MaxEmit :
        Deliveries(w, <<p, n>>) <= 1

\* C20: no orphaned process.  In every reachable state every process that a
\* reader has spawned, and that has neither been sent terminate nor exited, is
\* the process that reader's process field refers to.
C20_NoOrphan ==
    \A p \in Sockets :
        procs[p] = "alive" => readers[tasks[p].reader].process = p

====
